---- MODULE Spec2Model ----
(***************************************************************************)
(* Model of pdfresizer: PDFCompressor.compress_pdf (the size-targeting     *)
(* search of src/pdf_compressor.py) and the command line entry main().     *)
(*                                                                         *)
(* The file system is a function from path names to file contents.  A      *)
(* rebuild (compress_pdf_images / compress_pdf_rendering) is an external   *)
(* PDF engine call: its outcome (failure with or without a partial file,   *)
(* or success with some serialized size) is chosen nondeterministically    *)
(* for every candidate, which covers every assignment of sizes / failures  *)
(* to the grid.  One action is one execution of a loop body of the search. *)
(* Scale factors are kept in tenths (1.0 -> 10, 0.4 -> 4).                 *)
(***************************************************************************)
EXTENDS Integers, Sequences, FiniteSets, TLC

\* ---------------------------------------------------------------- bounds
\* Largest file size (bytes) of the input and of a rebuilt candidate.
MaxSize == 3
\* Largest target size (bytes); 0 is a target nothing can reach.
MaxTarget == 2

\* ------------------------------------------------------- program constants
quality_levels == <<95, 85, 75, 65, 50, 40, 30, 20>>
scale_factors == <<10, 9, 8, 7, 6, 5, 4>>
dpi_levels == <<150, 120, 100, 80, 60, 50>>

\* best_size = float('inf')
Inf == -1

\* Python's None (for output_path and best_result, which hold path names)
NoneVal == "None"

\* ------------------------------------------------------------------ paths
input_path == "in.pdf"
ExplicitOutput == "out.pdf"

\* str(input_file.parent / f"{input_file.stem}_compressed{input_file.suffix}")
DefaultOutput(p) ==
  IF p = "in.pdf" THEN "in" \o "_compressed" \o ".pdf" ELSE p \o "_compressed"

\* temp_output = f"{output_path}.temp"   and   f"{output_path}.temp2"
TempName(p) == p \o ".temp"
Temp2Name(p) == p \o ".temp2"

\* the values the caller may pass as output_path: omitted, a separate file,
\* or the input file itself
OutputArgs == {NoneVal, ExplicitOutput, input_path}

OutputPaths == {ExplicitOutput, input_path, DefaultOutput(input_path)}

Paths ==
  OutputPaths \cup {TempName(p) : p \in OutputPaths}
              \cup {Temp2Name(p) : p \in OutputPaths}

\* ---------------------------------------------------------- file contents
NoFile == [kind |-> "none", phase |-> 0, param |-> 0, scale |-> 0, size |-> 0]

\* the original document of the given size
Orig(sz) == [kind |-> "orig", phase |-> 0, param |-> 0, scale |-> 0, size |-> sz]

\* a file that was at an output path before the run
Old(sz) == [kind |-> "old", phase |-> 0, param |-> 0, scale |-> 0, size |-> sz]

\* the document serialized by a successful rebuild of one candidate
Cand(ph, prm, sc, sz) ==
  [kind |-> "cand", phase |-> ph, param |-> prm, scale |-> sc, size |-> sz]

\* what a rebuild that failed inside save() may leave behind
Partial == [kind |-> "partial", phase |-> 0, param |-> 0, scale |-> 0, size |-> 0]

\* os.path.exists
Exists(f, p) == f[p].kind # "none"

\* os.path.getsize
get_file_size(f, p) == f[p].size

\* os.remove
Remove(f, p) == [f EXCEPT ![p] = NoFile]

\* shutil.copy2: refuses to copy a file onto itself (SameFileError)
Copy2(f, src, dst) ==
  IF src = dst
    THEN [ok |-> FALSE, fs |-> f]
    ELSE [ok |-> TRUE, fs |-> [f EXCEPT ![dst] = f[src]]]

\* a move that leaves the source in place
MoveKeepsSource(f, src, dst) == [f EXCEPT ![dst] = f[src]]

\* shutil.move: rename over the destination
Move(f, src, dst) ==
  IF src = dst THEN f ELSE [f EXCEPT ![dst] = f[src], ![src] = NoFile]

\* ------------------------------------------------------ rebuild outcomes
\* what the PDF engine / codec does for one candidate
Outcomes ==
  [ok : {TRUE}, wrote : {TRUE}, size : 1..MaxSize]
    \cup [ok : {FALSE}, wrote : BOOLEAN, size : {0}]

\* compress_pdf_images: True and a saved document, or False (exception caught)
compress_pdf_images(f, out, quality, scale, o) ==
  IF o.ok THEN [f EXCEPT ![out] = Cand(1, quality, scale, o.size)]
  ELSE IF o.wrote THEN [f EXCEPT ![out] = Partial]
  ELSE f

\* compress_pdf_rendering: True and a saved document, or False
compress_pdf_rendering(f, out, dpi, scale, o) ==
  IF o.ok THEN [f EXCEPT ![out] = Cand(2, dpi, scale, o.size)]
  ELSE IF o.wrote THEN [f EXCEPT ![out] = Partial]
  ELSE f

\* --------------------------------------------------------------- the state
VARIABLES
  fs,                 \* the file system: Paths -> contents
  target_size_bytes,  \* self.target_size_bytes
  output_path,        \* the output_path parameter / local
  original_size,      \* original_size (0 before it is measured)
  best_result,        \* best_result
  best_size,          \* best_size
  q_idx,              \* position of the outer loop (quality or dpi)
  s_idx,              \* position of the inner loop (scale)
  pc,                 \* where compress_pdf is
  error,              \* the exception compress_pdf raised
  exit_code,          \* exit code of main(), -1 while running
  stdout,             \* what main() printed to standard output
  stderr,             \* what main() printed to standard error
  fs0,                \* history: the file system when compress_pdf was called
  calls1,             \* history: number of compress_pdf_images calls
  calls2,             \* history: number of compress_pdf_rendering calls
  last,               \* history: the latest rebuild and its outcome
  firstFit,           \* history: first successful rebuild with size <= target
  fit_at,             \* history: calls1 + calls2 when firstFit was produced
  rebuilt             \* history: the <<strategy, quality or dpi, scale>> rebuilt

\* state of one rebuild (compress_pdf_images / compress_pdf_rendering)
VARIABLES
  rb_pc,              \* where the rebuild is
  rb_mode,            \* "images" or "rendering"
  rb_param,           \* quality (images) or dpi (rendering)
  rb_scale,           \* scale, in tenths
  pdf_document,       \* pages of the source document
  new_pdf,            \* pages of the document being built
  page_num,           \* loop variable page_num (0-based)
  open_docs,          \* document handles that are open
  rb_result           \* return value of the rebuild

\* state of one compress_image call
VARIABLES
  img_pc,             \* where compress_image is
  image_data,         \* the image passed in
  img_quality,        \* quality
  img_scale,          \* scale, in tenths
  img_result          \* the image returned

\* state of one analyze_pdf / recommend_strategy run
VARIABLES
  an_pc,              \* where the analysis is
  an_doc,             \* the document at file_path
  analysis,           \* the dictionary analyze_pdf returns
  strategy            \* the string recommend_strategy returns

searchVars == <<fs, target_size_bytes, output_path, original_size, best_result,
                best_size, q_idx, s_idx, pc, error, exit_code, stdout, stderr,
                fs0, calls1, calls2, last, firstFit, fit_at, rebuilt>>

rebuildVars == <<rb_pc, rb_mode, rb_param, rb_scale, pdf_document, new_pdf,
                 page_num, open_docs, rb_result>>

imageVars == <<img_pc, image_data, img_quality, img_scale, img_result>>

analyzerVars == <<an_pc, an_doc, analysis, strategy>>

vars == <<searchVars, rebuildVars, imageVars, analyzerVars>>

\* no rebuild is being looked at
RebuildOff ==
  /\ rb_pc = "off"
  /\ rb_mode = "none"
  /\ rb_param = 0
  /\ rb_scale = 0
  /\ pdf_document = <<>>
  /\ new_pdf = <<>>
  /\ page_num = 0
  /\ open_docs = {}
  /\ rb_result = "none"

\* no compress_image call is being looked at
ImageOff ==
  /\ img_pc = "off"
  /\ image_data = [mode |-> "none", decodable |-> FALSE, width |-> 0]
  /\ img_quality = 0
  /\ img_scale = 0
  /\ img_result = [mode |-> "none", background |-> "none", mask |-> "none",
                   width |-> 0, changed |-> FALSE]

\* no analysis is being looked at
AnalyzerOff ==
  /\ an_pc = "off"
  /\ an_doc = [readable |-> FALSE, pages |-> <<>>]
  /\ analysis = [error |-> TRUE]
  /\ strategy = "none"

NoRebuild == [phase |-> 0, param |-> 0, scale |-> 0, ok |-> FALSE,
              wrote |-> FALSE, size |-> 0]

\* file systems the program starts with: the input may be missing, a file may
\* already be at an output path; the search's private temp names are free
\* (every run removes the temp files it creates)
InitFiles ==
  { [p \in Paths |->
       IF p = input_path THEN (IF inExists THEN Orig(inSize) ELSE NoFile)
       ELSE IF p \in {ExplicitOutput, DefaultOutput(input_path)}
              THEN (IF outExists THEN Old(oldSize) ELSE NoFile)
       ELSE NoFile] :
      inExists \in BOOLEAN, inSize \in 1..MaxSize,
      outExists \in BOOLEAN, oldSize \in {MaxSize} }

Init ==
  /\ fs \in InitFiles
  /\ fs0 = fs
  /\ target_size_bytes \in 0..MaxTarget
  /\ output_path \in OutputArgs
  /\ original_size = 0
  /\ best_result = NoneVal
  /\ best_size = Inf
  /\ q_idx = 0
  /\ s_idx = 0
  /\ pc = "start"
  /\ error = "none"
  /\ exit_code = -1
  /\ stdout = {}
  /\ stderr = {}
  /\ calls1 = 0
  /\ calls2 = 0
  /\ last = NoRebuild
  /\ firstFit = NoFile
  /\ fit_at = 0
  /\ rebuilt = {}
  /\ RebuildOff
  /\ ImageOff
  /\ AnalyzerOff

\* ------------------------------------------------------- compress_pdf
\* if output_path is None: output_path = <stem>_compressed<suffix>
ResolveOutput(inp, out) == IF out = NoneVal THEN DefaultOutput(inp) ELSE out

\* an existence check that lets a missing input through
InputMissingNever(f, p) == FALSE

\* if not os.path.exists(input_path)
InputMissing(f, p) == ~Exists(f, p)

\* a trivial-copy test that sends an input of exactly the target size into
\* the search
AlreadyWithinTargetStrict(size, target) == size < target

\* if original_size <= self.target_size_bytes
AlreadyWithinTarget(size, target) == size <= target

\* a budget test that lets everything through
FitsAnything(current_size, target) == TRUE

\* if current_size <= self.target_size_bytes
Fits(current_size, target) == current_size <= target

\* a selection test that forgets the rebuild's return value
HitIgnoresFailure(ok, current_size, target) == Fits(current_size, target)

\* the candidate is taken: the rebuild returned True and its size fits
Hit(ok, current_size, target) == ok /\ Fits(current_size, target)

\* if current_size < best_size or best_result is None: record the candidate
UpdateBest(result, size, temp, current_size) ==
  IF (size = Inf \/ current_size < size) \/ result = NoneVal
    THEN [result |-> temp, size |-> current_size]
    ELSE [result |-> result, size |-> size]

\* truth value of best_result (None is false, a path name is true)
Truthy(result) == result # NoneVal

\* a clean up that runs only where the rebuild had returned True, so that a
\* file left by a failed rebuild stays
CleanupOnlyAfterSuccess(f, temp, result) ==
  IF Exists(f, temp) /\ temp # result /\ f[temp].kind = "cand"
    THEN Remove(f, temp) ELSE f

\* a clean up whose comparison with best_result is inverted
CleanupWhenBest(f, temp, result) ==
  IF Exists(f, temp) /\ temp = result THEN Remove(f, temp) ELSE f

\* if os.path.exists(temp_output) and temp_output != best_result: os.remove
Cleanup(f, temp, result) ==
  IF Exists(f, temp) /\ temp # result THEN Remove(f, temp) ELSE f

Pos(p, q, s) == [pc |-> p, q |-> q, s |-> s]

\* 'if not best_result' in front of strategy 2, taken unconditionally
AfterPhase1Always(result) == Pos("phase2", 1, 1)

\* after the quality loop: strategy 2 runs only if not best_result
AfterPhase1(result) ==
  IF ~Truthy(result) THEN Pos("phase2", 1, 1) ELSE Pos("finalize", 0, 0)

\* a quality loop whose inner loop does not stop at a hit
Phase1NextNoBreak(broke, q, s, result) ==
  IF s < Len(scale_factors) THEN Pos("phase1", q, s + 1)
  ELSE IF q < Len(quality_levels) THEN Pos("phase1", q + 1, 1)
  ELSE AfterPhase1(result)

\* control flow of the nested loops of strategy 1 after one loop body
Phase1Next(broke, q, s, result) ==
  IF ~broke /\ s < Len(scale_factors) THEN Pos("phase1", q, s + 1)
  ELSE IF Truthy(result) THEN AfterPhase1(result)
  ELSE IF q < Len(quality_levels) THEN Pos("phase1", q + 1, 1)
  ELSE AfterPhase1(result)

\* a dpi loop that runs a dpi level again instead of taking the next one
Phase2NextSameDpi(broke, d, s, result) ==
  IF ~broke /\ s < Len(scale_factors) THEN Pos("phase2", d, s + 1)
  ELSE IF Truthy(result) THEN Pos("finalize", 0, 0)
  ELSE IF d < Len(dpi_levels) THEN Pos("phase2", d, 1)
  ELSE Pos("finalize", 0, 0)

\* control flow of the nested loops of strategy 2 after one loop body
Phase2Next(broke, d, s, result) ==
  IF ~broke /\ s < Len(scale_factors) THEN Pos("phase2", d, s + 1)
  ELSE IF Truthy(result) THEN Pos("finalize", 0, 0)
  ELSE IF d < Len(dpi_levels) THEN Pos("phase2", d + 1, 1)
  ELSE Pos("finalize", 0, 0)

\* history of the first rebuild that succeeded within the target
NoteFit(c, o) ==
  /\ firstFit' = IF firstFit = NoFile /\ o.ok /\ o.size <= target_size_bytes
                   THEN c ELSE firstFit
  /\ fit_at' = IF firstFit = NoFile /\ o.ok /\ o.size <= target_size_bytes
                 THEN calls1' + calls2' ELSE fit_at

\* compress_pdf up to the start of the search: existence check, default
\* output path, size measurement, trivial copy
Call ==
  /\ pc = "start"
  /\ IF InputMissing(fs, input_path)
       THEN /\ pc' = "raised"
            /\ error' = "FileNotFoundError"
            /\ UNCHANGED <<fs, output_path, original_size, q_idx, s_idx>>
       ELSE LET out == ResolveOutput(input_path, output_path)
                size == get_file_size(fs, input_path)
                cp == Copy2(fs, input_path, out)
            IN /\ output_path' = out
               /\ original_size' = size
               /\ IF AlreadyWithinTarget(size, target_size_bytes)
                    THEN /\ fs' = cp.fs
                         /\ pc' = IF cp.ok THEN "returned" ELSE "raised"
                         /\ error' = IF cp.ok THEN "none" ELSE "SameFileError"
                         /\ UNCHANGED <<q_idx, s_idx>>
                    ELSE /\ pc' = "phase1"
                         /\ q_idx' = 1
                         /\ s_idx' = 1
                         /\ UNCHANGED <<fs, error>>
  /\ best_result' = NoneVal
  /\ best_size' = Inf
  /\ UNCHANGED <<target_size_bytes, exit_code, stdout, stderr, fs0, calls1,
                 calls2, last, firstFit, fit_at, rebuilt>>
  /\ UNCHANGED <<rebuildVars, imageVars, analyzerVars>>

\* one body of the loops of strategy 1 (image compression)
Phase1Step ==
  /\ pc = "phase1"
  /\ \E o \in Outcomes :
       LET quality == quality_levels[q_idx]
           scale == scale_factors[s_idx]
           temp_output == TempName(output_path)
           f1 == compress_pdf_images(fs, temp_output, quality, scale, o)
           current_size == get_file_size(f1, temp_output)
           hit == Hit(o.ok, current_size, target_size_bytes)
           nb == IF hit
                   THEN UpdateBest(best_result, best_size, temp_output,
                                   current_size)
                   ELSE [result |-> best_result, size |-> best_size]
           f2 == IF hit THEN f1 ELSE Cleanup(f1, temp_output, nb.result)
           nxt == Phase1Next(hit, q_idx, s_idx, nb.result)
       IN /\ (o.ok => Exists(fs, input_path))
          /\ fs' = f2
          /\ best_result' = nb.result
          /\ best_size' = nb.size
          /\ pc' = nxt.pc
          /\ q_idx' = nxt.q
          /\ s_idx' = nxt.s
          /\ calls1' = calls1 + 1
          /\ calls2' = calls2
          /\ last' = [phase |-> 1, param |-> quality, scale |-> scale,
                      ok |-> o.ok, wrote |-> o.wrote, size |-> o.size]
          /\ NoteFit(Cand(1, quality, scale, o.size), o)
          /\ rebuilt' = rebuilt \cup {<<1, quality, scale>>}
  /\ UNCHANGED <<target_size_bytes, output_path, original_size, error,
                 exit_code, stdout, stderr, fs0>>
  /\ UNCHANGED <<rebuildVars, imageVars, analyzerVars>>

\* one body of the loops of strategy 2 (re-rendering at lower DPI)
Phase2Step ==
  /\ pc = "phase2"
  /\ \E o \in Outcomes :
       LET dpi == dpi_levels[q_idx]
           scale == scale_factors[s_idx]
           temp_output == Temp2Name(output_path)
           f1 == compress_pdf_rendering(fs, temp_output, dpi, scale, o)
           current_size == get_file_size(f1, temp_output)
           hit == Hit(o.ok, current_size, target_size_bytes)
           nb == IF hit
                   THEN UpdateBest(best_result, best_size, temp_output,
                                   current_size)
                   ELSE [result |-> best_result, size |-> best_size]
           f2 == IF hit THEN f1 ELSE Cleanup(f1, temp_output, nb.result)
           nxt == Phase2Next(hit, q_idx, s_idx, nb.result)
       IN /\ (o.ok => Exists(fs, input_path))
          /\ fs' = f2
          /\ best_result' = nb.result
          /\ best_size' = nb.size
          /\ pc' = nxt.pc
          /\ q_idx' = nxt.q
          /\ s_idx' = nxt.s
          /\ calls1' = calls1
          /\ calls2' = calls2 + 1
          /\ last' = [phase |-> 2, param |-> dpi, scale |-> scale,
                      ok |-> o.ok, wrote |-> o.wrote, size |-> o.size]
          /\ NoteFit(Cand(2, dpi, scale, o.size), o)
          /\ rebuilt' = rebuilt \cup {<<2, dpi, scale>>}
  /\ UNCHANGED <<target_size_bytes, output_path, original_size, error,
                 exit_code, stdout, stderr, fs0>>
  /\ UNCHANGED <<rebuildVars, imageVars, analyzerVars>>

\* 'Finalize the result': move the selected temp file, or raise
Finalize ==
  /\ pc = "finalize"
  /\ IF Truthy(best_result)
       THEN /\ fs' = IF best_result # output_path
                       THEN Move(fs, best_result, output_path) ELSE fs
            /\ pc' = "returned"
            /\ error' = "none"
       ELSE /\ pc' = "raised"
            /\ error' = "Exception"
            /\ fs' = fs
  /\ UNCHANGED <<target_size_bytes, output_path, original_size, best_result,
                 best_size, q_idx, s_idx, exit_code, stdout, stderr, fs0,
                 calls1, calls2, last, firstFit, fit_at, rebuilt>>
  /\ UNCHANGED <<rebuildVars, imageVars, analyzerVars>>

\* ---------------------------------------------------------------- main()
\* where main() writes the message of a caught exception: print() -> stdout
ErrorStream == "stdout"

\* main() after compress_pdf: print the result and fall off the end (exit
\* code 0), or print 'Error: ...' and sys.exit(1)
MainExit ==
  /\ pc \in {"returned", "raised"}
  /\ exit_code = -1
  /\ IF pc = "returned"
       THEN /\ stdout' = stdout \cup {"saved"}
            /\ stderr' = stderr
            /\ exit_code' = 0
       ELSE /\ stdout' = IF ErrorStream = "stdout"
                           THEN stdout \cup {"Error"} ELSE stdout
            /\ stderr' = IF ErrorStream = "stderr"
                           THEN stderr \cup {"Error"} ELSE stderr
            /\ exit_code' = 1
  /\ UNCHANGED <<fs, target_size_bytes, output_path, original_size,
                 best_result, best_size, q_idx, s_idx, pc, error, fs0, calls1,
                 calls2, last, firstFit, fit_at, rebuilt>>
  /\ UNCHANGED <<rebuildVars, imageVars, analyzerVars>>

Next == Call \/ Phase1Step \/ Phase2Step \/ Finalize \/ MainExit

Spec == Init /\ [][Next]_vars

\* the program is single threaded and synchronous: a step that can be taken
\* is taken
FairSpec == Init /\ [][Next]_vars /\ WF_vars(Next)

\* no compress_pdf call is being looked at
SearchOff ==
  /\ fs = [p \in Paths |-> NoFile]
  /\ fs0 = fs
  /\ target_size_bytes = 0
  /\ output_path = NoneVal
  /\ original_size = 0
  /\ best_result = NoneVal
  /\ best_size = Inf
  /\ q_idx = 0
  /\ s_idx = 0
  /\ pc = "off"
  /\ error = "none"
  /\ exit_code = -1
  /\ stdout = {}
  /\ stderr = {}
  /\ calls1 = 0
  /\ calls2 = 0
  /\ last = NoRebuild
  /\ firstFit = NoFile
  /\ fit_at = 0
  /\ rebuilt = {}

\* ------------------------------------------------------------- properties
\* compress_pdf has ended by returning output_path
Returned == pc = "returned"

\* compress_pdf returned through the search (strategy 1 or 2), not the copy
ReturnedFromSearch == pc = "returned" /\ Truthy(best_result)

\* the input existed and was larger than the target when the run began
InputExceedsTarget ==
  Exists(fs0, input_path) /\ get_file_size(fs0, input_path) > target_size_bytes

\* number of candidates of each grid
Grid1 == Len(quality_levels) * Len(scale_factors)
Grid2 == Len(dpi_levels) * Len(scale_factors)

\* no temp file of any output path is on disk
NoTempFiles == \A p \in Paths \ OutputPaths : ~Exists(fs, p)

\* the k-th pair of an outer list x the scale list, outer loop first
EnumPair(outer, k) ==
  <<outer[((k - 1) \div 7) + 1], <<10, 9, 8, 7, 6, 5, 4>>[((k - 1) % 7) + 1]>>

\* C1 (budget satisfaction): whenever compress_pdf has returned a path, by the
\* trivial copy, strategy 1 or strategy 2, the file at the returned output
\* path is no larger than target_size_bytes.
C1_BudgetSatisfaction ==
  Returned => get_file_size(fs, output_path) <= target_size_bytes

C1_Witness ==
  /\ Returned
  /\ best_result = Temp2Name(output_path)
  /\ get_file_size(fs, output_path) = target_size_bytes
  /\ original_size > target_size_bytes

\* C2 (early stop): once a strategy 1 candidate has been rebuilt successfully
\* with size <= target, it is the candidate at its own position of the grid
\* enumeration (quality outer, scale inner), no further candidate of either
\* strategy is rebuilt, the run goes on to return, and the file at the output
\* path on return is that candidate's document.
C2_EarlyStop ==
  firstFit.phase = 1 =>
    /\ calls1 = fit_at
    /\ calls2 = 0
    /\ <<firstFit.param, firstFit.scale>>
         = EnumPair(<<95, 85, 75, 65, 50, 40, 30, 20>>, fit_at)
    /\ pc \in {"finalize", "returned"}
    /\ (Returned => fs[output_path] = firstFit)

C2_Witness ==
  /\ Returned
  /\ firstFit.phase = 1
  /\ fit_at > Len(scale_factors)
  /\ firstFit.size > 1
  /\ firstFit.scale < 10

\* C3 (trivial acceptance): if the input exists with size <= target, then
\* compress_pdf returns the output path, the output holds exactly the input's
\* bytes, no rebuild was attempted and no temp file was created.
C3_TrivialCopy ==
  (pc # "start" /\ Exists(fs0, input_path) /\ ~InputExceedsTarget) =>
    /\ Returned
    /\ fs[output_path] = fs0[input_path]
    /\ calls1 + calls2 = 0
    /\ NoTempFiles

\* C4 (exhaustion): if the input exceeds the target and the run has ended
\* without any candidate that rebuilt successfully within the target, then it
\* ended by raising the target-unreachable error after all 56 + 42 candidates,
\* no temp file is on disk and the output path holds what it held before.
C4_Exhaustion ==
  (pc \in {"returned", "raised"} /\ InputExceedsTarget /\ firstFit = NoFile) =>
    /\ pc = "raised"
    /\ error = "Exception"
    /\ calls1 = 56
    /\ calls2 = 42
    /\ ~Exists(fs, TempName(output_path))
    /\ ~Exists(fs, Temp2Name(output_path))
    /\ fs[output_path] = fs0[output_path]

C4_Witness ==
  /\ pc = "raised"
  /\ error = "Exception"
  /\ last.wrote
  /\ fs[output_path].kind = "old"
  /\ target_size_bytes > 0

\* C5 (phase ordering): a strategy 2 candidate is rebuilt only after all 56
\* strategy 1 candidates were rebuilt and none of them fitted; strategy 2
\* rebuilds its candidates in the order dpi (outer) x scale (inner), and the
\* first one that fits ends the search and is the document returned.
C5_PhaseOrdering ==
  /\ calls2 > 0 => (calls1 = 56 /\ firstFit.phase # 1)
  /\ last.phase = 2 =>
       <<last.param, last.scale>>
         = EnumPair(<<150, 120, 100, 80, 60, 50>>, calls2)
  /\ firstFit.phase = 2 =>
       /\ calls1 + calls2 = fit_at
       /\ pc \in {"finalize", "returned"}
       /\ (Returned => fs[output_path] = firstFit)

C5_Witness ==
  /\ Returned
  /\ firstFit.phase = 2
  /\ calls2 > Len(scale_factors)
  /\ firstFit.scale < 10

\* position of the loops as a number in enumeration order
LoopIndex == (q_idx - 1) * Len(scale_factors) + s_idx

\* C6 (a failed candidate is recovered locally): right after the rebuild of a
\* candidate failed, its temp file is gone, nothing has been selected, and the
\* search stands at the next candidate in enumeration order (after the last
\* strategy 1 candidate the first of strategy 2, after the last strategy 2
\* candidate the end of the search); a file left by a failed rebuild is never
\* the returned document.
C6_FailureRecovered ==
  /\ (pc \in {"phase1", "phase2", "finalize"} /\ last.phase = 1 /\ ~last.ok) =>
       /\ ~Exists(fs, TempName(output_path))
       /\ best_result = NoneVal
       /\ IF calls1 < Grid1
            THEN pc = "phase1" /\ LoopIndex = calls1 + 1
            ELSE pc = "phase2" /\ LoopIndex = 1
  /\ (pc \in {"phase1", "phase2", "finalize"} /\ last.phase = 2 /\ ~last.ok) =>
       /\ ~Exists(fs, Temp2Name(output_path))
       /\ best_result = NoneVal
       /\ IF calls2 < Grid2
            THEN pc = "phase2" /\ LoopIndex = calls2 + 1
            ELSE pc = "finalize"
  /\ ReturnedFromSearch => (last.ok /\ fs[output_path].kind = "cand")

C6_Witness ==
  /\ pc = "phase2"
  /\ last.phase = 2
  /\ ~last.ok
  /\ last.wrote
  /\ calls2 > 1

\* C7 (errors raised): compress_pdf raises only input-not-found, when the
\* input path does not exist, and target-unreachable, when both strategies
\* are exhausted; every other run returns.
C7_OnlyTwoErrors ==
  pc = "raised" =>
    \/ (error = "FileNotFoundError" /\ ~Exists(fs0, input_path))
    \/ (error = "Exception" /\ calls1 = Grid1 /\ calls2 = Grid2)

\* C8 (input is read-only): when compress_pdf has ended, by returning or by
\* raising, the file at input_path holds what it held before the run.
C8_InputUnchanged ==
  pc \in {"returned", "raised"} => fs[input_path] = fs0[input_path]

C10_ExitProtocol ==
  exit_code # -1 =>
    /\ (pc = "returned" => exit_code = 0)
    /\ (pc = "raised" =>
          /\ exit_code # 0
          /\ "Error" \in stderr
          /\ "Error" \notin stdout)

\* C11 (input not found): if input_path does not exist, compress_pdf raises
\* the not-found error without measuring a size, without a rebuild and without
\* creating or changing any file (output path and temp paths included).
C11_NotFoundNoEffect ==
  (pc # "start" /\ ~Exists(fs0, input_path)) =>
    /\ pc = "raised"
    /\ error = "FileNotFoundError"
    /\ original_size = 0
    /\ calls1 + calls2 = 0
    /\ fs = fs0

C11_Witness ==
  /\ pc = "raised"
  /\ error = "FileNotFoundError"
  /\ ~Exists(fs0, input_path)
  /\ Exists(fs, ExplicitOutput)
  /\ output_path = ExplicitOutput

\* the search's temp files that are on disk
TempFiles == {p \in Paths \ OutputPaths : Exists(fs, p)}

\* C13 (temp files): in every state at most one temp file of the search is on
\* disk; when the next candidate's rebuild is about to start none is (the
\* previous candidate's output has been deleted); a temp file that stays is
\* the selected one, and then no further candidate starts.
C13_TempFileInvariant ==
  /\ Cardinality(TempFiles) <= 1
  /\ pc \in {"phase1", "phase2"} => TempFiles = {}
  /\ TempFiles # {} => (pc = "finalize" /\ TempFiles = {best_result})

C13_Witness ==
  /\ pc = "phase2"
  /\ last.phase = 1
  /\ last.ok
  /\ TempFiles = {}

\* C14 (bounded work, termination): a run makes at most 56 calls of
\* compress_pdf_images followed by at most 42 calls of compress_pdf_rendering
\* (at most 98 rebuilds), rebuilds no pair twice, and ends by returning or
\* raising.
C14_BoundedWork ==
  /\ [](/\ calls1 <= 56
        /\ calls2 <= 42
        /\ calls1 + calls2 <= 98
        /\ (calls2 > 0 => calls1 = 56)
        /\ Cardinality(rebuilt) = calls1 + calls2)
  /\ <>(pc \in {"returned", "raised"})

C14_Witness ==
  /\ pc = "raised"
  /\ calls1 + calls2 = 98
  /\ Cardinality(rebuilt) = 98

\* ------------------------------------------------- one rebuild, step by step
\* Largest number of pages of a source document.
MaxPages == 2
\* Largest number of embedded images on a page.
MaxImages == 1

\* pil_image.save(..., quality=85, ...) in compress_pdf_rendering
RenderQuality == 85

\* zoom = dpi / 72.0
BaseDpi == 72

\* a source page: page.rect and len(page.get_images())
Pages == [width : {612}, height : {792, 842}, images : 0..MaxImages]

\* the source documents: at least one page
Docs == UNION {[1..n -> Pages] : n \in 1..MaxPages}

\* a page of the new document; width and height in tenths of a point, the
\* render matrix as the fraction zoom_num / zoom_den
RasterPage(page, n, quality, znum, zden, scale) ==
  [source |-> n, kind |-> "raster", quality |-> quality,
   zoom_num |-> znum, zoom_den |-> zden,
   width |-> page.width * scale, height |-> page.height * scale]

\* new_page.show_pdf_page(new_page.rect, pdf_document, page_num)
VectorPage(page, n, scale) ==
  [source |-> n, kind |-> "vector", quality |-> 0,
   zoom_num |-> 0, zoom_den |-> 1,
   width |-> page.width * scale, height |-> page.height * scale]

\* a loop body that encodes at a fixed quality instead of the candidate's
ImagesPageFixedQuality(page, n, quality, scale) ==
  IF page.images > 0
    THEN RasterPage(page, n, RenderQuality, scale, 10, scale)
    ELSE VectorPage(page, n, scale)

\* loop body of compress_pdf_images: matrix = Matrix(scale, scale); a page
\* with images is rendered and encoded at quality, another page is copied
ImagesPage(page, n, quality, scale) ==
  IF page.images > 0
    THEN RasterPage(page, n, quality, scale, 10, scale)
    ELSE VectorPage(page, n, scale)

\* a loop body whose render matrix leaves out the scale
RenderingPageZoomOnly(page, n, dpi, scale) ==
  RasterPage(page, n, RenderQuality, dpi, BaseDpi, scale)

\* loop body of compress_pdf_rendering: matrix = Matrix(zoom * scale,
\* zoom * scale) with zoom = dpi / 72.0; every page is rendered, quality 85
RenderingPage(page, n, dpi, scale) ==
  RasterPage(page, n, RenderQuality, dpi * scale, BaseDpi * 10, scale)

InitRebuild ==
  /\ SearchOff
  /\ ImageOff
  /\ AnalyzerOff
  /\ rb_pc = "start"
  /\ rb_mode \in {"images", "rendering"}
  /\ rb_param \in IF rb_mode = "images"
                    THEN {quality_levels[i] : i \in DOMAIN quality_levels}
                    ELSE {dpi_levels[i] : i \in DOMAIN dpi_levels}
  /\ rb_scale \in {scale_factors[i] : i \in DOMAIN scale_factors}
  /\ pdf_document \in Docs
  /\ new_pdf = <<>>
  /\ page_num = 0
  /\ open_docs = {}
  /\ rb_result = "none"

\* except Exception: print, return False.  Nothing closes the documents on
\* this path; whether they are closed by then is left to the run time (a
\* finalizer may or may not have run when the rebuild returns)
CaughtException ==
  /\ rb_pc' = "returned"
  /\ rb_result' = "False"
  /\ open_docs' \in {open_docs, {}}
  /\ UNCHANGED <<new_pdf, page_num>>

\* pdf_document = fitz.open(input_path); new_pdf = fitz.open()
RebuildOpen ==
  /\ rb_pc = "start"
  /\ \E raises \in BOOLEAN :
       IF raises
         THEN CaughtException
         ELSE /\ open_docs' = {"pdf_document", "new_pdf"}
              /\ rb_pc' = "pages"
              /\ page_num' = 0
              /\ UNCHANGED <<new_pdf, rb_result>>
  /\ UNCHANGED <<rb_mode, rb_param, rb_scale, pdf_document>>
  /\ UNCHANGED <<searchVars, imageVars, analyzerVars>>

\* one body of 'for page_num in range(pdf_document.page_count)'
RebuildPage ==
  /\ rb_pc = "pages"
  /\ page_num < Len(pdf_document)
  /\ \E raises \in BOOLEAN :
       IF raises
         THEN CaughtException
         ELSE LET page == pdf_document[page_num + 1]
              IN /\ new_pdf' = Append(new_pdf,
                      IF rb_mode = "images"
                        THEN ImagesPage(page, page_num + 1, rb_param, rb_scale)
                        ELSE RenderingPage(page, page_num + 1, rb_param,
                                           rb_scale))
                 /\ page_num' = page_num + 1
                 /\ UNCHANGED <<rb_pc, rb_result, open_docs>>
  /\ UNCHANGED <<rb_mode, rb_param, rb_scale, pdf_document>>
  /\ UNCHANGED <<searchVars, imageVars, analyzerVars>>

\* new_pdf.save(...); new_pdf.close(); pdf_document.close(); return True
RebuildSave ==
  /\ rb_pc = "pages"
  /\ page_num = Len(pdf_document)
  /\ \E raises \in BOOLEAN :
       IF raises
         THEN CaughtException
         ELSE /\ open_docs' = (open_docs \ {"new_pdf"}) \ {"pdf_document"}
              /\ rb_result' = "True"
              /\ rb_pc' = "returned"
              /\ UNCHANGED <<new_pdf, page_num>>
  /\ UNCHANGED <<rb_mode, rb_param, rb_scale, pdf_document>>
  /\ UNCHANGED <<searchVars, imageVars, analyzerVars>>

NextRebuild == RebuildOpen \/ RebuildPage \/ RebuildSave

SpecRebuild == InitRebuild /\ [][NextRebuild]_vars

\* C12 (resource discipline): once a rebuild has returned, True or False, no
\* document handle it opened is still open.
C12_HandlesClosed ==
  rb_pc = "returned" => open_docs = {}

\* the rebuild returned True
RebuildSucceeded == rb_pc = "returned" /\ rb_result = "True"

\* C15 (image-recompress rebuild): after a successful compress_pdf_images the
\* new document has the source's pages in the same number and order; page i
\* has the source page's width and height times scale; it is a raster encoded
\* at the candidate's quality exactly if source page i has at least one
\* image, and otherwise the source page's content copied unrasterized.
C15_ImagesPerPage ==
  (RebuildSucceeded /\ rb_mode = "images") =>
    /\ Len(new_pdf) = Len(pdf_document)
    /\ \A i \in DOMAIN new_pdf :
         /\ new_pdf[i].source = i
         /\ new_pdf[i].width = pdf_document[i].width * rb_scale
         /\ new_pdf[i].height = pdf_document[i].height * rb_scale
         /\ (new_pdf[i].kind = "raster") <=> (pdf_document[i].images >= 1)
         /\ (new_pdf[i].kind = "raster") => (new_pdf[i].quality = rb_param)
         /\ (pdf_document[i].images = 0) => (new_pdf[i].kind = "vector")

C15_Witness ==
  /\ RebuildSucceeded
  /\ rb_mode = "images"
  /\ Len(pdf_document) = 2
  /\ pdf_document[1].images = 0
  /\ pdf_document[2].images > 0
  /\ rb_scale < 10
  /\ rb_param = 40

\* C16 (full re-render): after a successful compress_pdf_rendering the new
\* document has the source's pages in the same number and order, every page
\* (with or without images) is a raster rendered at zoom (dpi / 72) * scale
\* and encoded at quality 85, on a page of the source's width and height
\* times scale; no page is a copied vector page.
C16_RenderingUniform ==
  (RebuildSucceeded /\ rb_mode = "rendering") =>
    /\ Len(new_pdf) = Len(pdf_document)
    /\ \A i \in DOMAIN new_pdf :
         /\ new_pdf[i].source = i
         /\ new_pdf[i].kind = "raster"
         /\ new_pdf[i].quality = 85
         /\ new_pdf[i].zoom_num * 72 * 10
              = rb_param * rb_scale * new_pdf[i].zoom_den
         /\ new_pdf[i].width = pdf_document[i].width * rb_scale
         /\ new_pdf[i].height = pdf_document[i].height * rb_scale

C16_Witness ==
  /\ RebuildSucceeded
  /\ rb_mode = "rendering"
  /\ Len(pdf_document) = 2
  /\ pdf_document[1].images = 0
  /\ pdf_document[2].images > 0
  /\ rb_scale < 10
  /\ rb_param = 120

\* ---------------------------------------------------------- compress_image
\* Pillow image modes
Modes == {"1", "L", "LA", "P", "PA", "RGB", "RGBA", "CMYK"}

\* the modes that carry an alpha channel
HasAlpha(mode) == mode \in {"LA", "PA", "RGBA"}

\* the images passed in: any mode, possibly not decodable, narrow or wide
Images == [mode : Modes, decodable : BOOLEAN, width : {1, 15}]

\* int(image.width * scale), scale in tenths
ScaledWidth(width, scale) == (width * scale) \div 10

\* except Exception: return image_data
Untouched(image) ==
  [mode |-> image.mode, background |-> "none", mask |-> "none",
   width |-> image.width, changed |-> FALSE]

\* compress_image: normalise the mode, resize if scale < 1.0, encode as JPEG;
\* on any exception (Image.open, resize to an empty size) return the input
compress_image(image, quality, scale) ==
  IF ~image.decodable THEN Untouched(image)
  ELSE IF scale < 10 /\ ScaledWidth(image.width, scale) = 0
    THEN Untouched(image)
  ELSE
    [mode |-> "RGB",
     background |-> IF image.mode \in {"RGBA", "P"} THEN "white" ELSE "none",
     mask |-> IF image.mode = "RGBA" THEN "alpha" ELSE "none",
     width |-> IF scale < 10 THEN ScaledWidth(image.width, scale)
               ELSE image.width,
     changed |-> TRUE]

InitImage ==
  /\ SearchOff
  /\ RebuildOff
  /\ AnalyzerOff
  /\ img_pc = "start"
  /\ image_data \in Images
  /\ img_quality \in {quality_levels[i] : i \in DOMAIN quality_levels}
  /\ img_scale \in {scale_factors[i] : i \in DOMAIN scale_factors}
  /\ img_result = Untouched([mode |-> "none", width |-> 0])

\* one call of compress_image
CompressImage ==
  /\ img_pc = "start"
  /\ img_result' = compress_image(image_data, img_quality, img_scale)
  /\ img_pc' = "done"
  /\ UNCHANGED <<image_data, img_quality, img_scale>>
  /\ UNCHANGED <<searchVars, rebuildVars, analyzerVars>>

NextImage == CompressImage

SpecImage == InitImage /\ [][NextImage]_vars

\* C17 (colour mode normalisation): after a successful recompression, an
\* input that has an alpha channel or is palette-indexed was composited onto
\* an opaque white background, and the output carries no alpha channel.
C17_WhiteBackground ==
  (img_pc = "done" /\ img_result.changed) =>
    /\ (HasAlpha(image_data.mode) \/ image_data.mode = "P") =>
         img_result.background = "white"
    /\ ~HasAlpha(img_result.mode)

\* ------------------------------------------- PDFAnalyzer (src/pdf_utils.py)
\* an embedded image as doc.extract_image sees it: pixel width and height,
\* or an image whose extraction raises (skipped by 'except: continue')
AnImages ==
  {[w |-> 3, h |-> 3, ok |-> TRUE], [w |-> 5, h |-> 6, ok |-> TRUE],
   [w |-> 6, h |-> 6, ok |-> TRUE], [w |-> 1700, h |-> 1, ok |-> TRUE],
   [w |-> 1701, h |-> 1, ok |-> TRUE], [w |-> 0, h |-> 0, ok |-> FALSE]}

\* a page: page.rect.width * page.rect.height and its images
AnPages ==
  UNION {[area : {100}, images : [1..n -> AnImages]] : n \in 0..MaxImages}

\* the documents given to analyze_pdf; fitz.open fails on an unreadable one
AnDocs ==
  {[readable |-> FALSE, pages |-> <<>>]}
    \cup UNION {[readable : {TRUE}, pages : [1..n -> AnPages]] :
                   n \in 1..MaxPages}

Max(a, b) == IF a >= b THEN a ELSE b

\* the sums the loop over one page's images adds up: pixel area, longest
\* side (estimated_dpi is that side / 8.5) and the number of images counted
RECURSIVE ImageSums(_)
ImageSums(imgs) ==
  IF imgs = <<>> THEN [area |-> 0, side |-> 0, count |-> 0]
  ELSE LET rest == ImageSums(Tail(imgs))
           img == Head(imgs)
       IN IF img.ok /\ img.w > 0 /\ img.h > 0
            THEN [area |-> rest.area + img.w * img.h,
                  side |-> rest.side + Max(img.w, img.h),
                  count |-> rest.count + 1]
            ELSE rest

\* the sums of the loop over the pages
RECURSIVE PageSums(_)
PageSums(pages) ==
  IF pages = <<>>
    THEN [page_area |-> 0, images |-> 0, area |-> 0, side |-> 0, count |-> 0]
  ELSE LET rest == PageSums(Tail(pages))
           page == Head(pages)
           s == ImageSums(page.images)
       IN [page_area |-> rest.page_area + page.area,
           images |-> rest.images + Len(page.images),
           area |-> rest.area + s.area,
           side |-> rest.side + s.side,
           count |-> rest.count + s.count]

\* return {'error': str(e)}
ErrorAnalysis ==
  [error |-> TRUE, page_count |-> 0, total_images |-> 0,
   text_heavy |-> FALSE, image_heavy |-> FALSE,
   average_dpi |-> [num |-> 0, den |-> 1]]

\* analyze_pdf.  average_dpi = total_dpi / dpi_count with estimated_dpi =
\* max(w, h) / 8.5 is kept as the fraction (10 * sides) / (85 * count);
\* image_ratio = total_image_area / (total_page_area * doc.page_count)
analyze_pdf(doc) ==
  IF ~doc.readable THEN ErrorAnalysis
  ELSE LET t == PageSums(doc.pages)
           page_count == Len(doc.pages)
           ratio_num == IF t.page_area > 0 THEN t.area ELSE 0
           ratio_den == IF t.page_area > 0 THEN t.page_area * page_count ELSE 1
       IN [error |-> FALSE,
           page_count |-> page_count,
           total_images |-> t.images,
           image_heavy |-> t.area > 0 /\ 10 * ratio_num > 3 * ratio_den,
           text_heavy |-> t.area > 0 /\ 10 * ratio_num < 1 * ratio_den,
           average_dpi |-> IF t.area > 0 /\ t.count > 0
                             THEN [num |-> 10 * t.side, den |-> 85 * t.count]
                             ELSE [num |-> 0, den |-> 1]]

\* analysis['average_dpi'] > 200
DpiAbove200(a) == a.average_dpi.num > 200 * a.average_dpi.den

\* a lookup that takes 200 itself as high resolution
recommend_strategy_from200(a) ==
  IF a.error THEN "basic"
  ELSE IF a.image_heavy
    THEN (IF a.average_dpi.num >= 200 * a.average_dpi.den
            THEN "aggressive_image_compression"
            ELSE "moderate_image_compression")
  ELSE IF a.text_heavy THEN "dpi_reduction"
  ELSE "balanced"

\* recommend_strategy
recommend_strategy(a) ==
  IF a.error THEN "basic"
  ELSE IF a.image_heavy
    THEN (IF DpiAbove200(a)
            THEN "aggressive_image_compression"
            ELSE "moderate_image_compression")
  ELSE IF a.text_heavy THEN "dpi_reduction"
  ELSE "balanced"

InitAnalyzer ==
  /\ SearchOff
  /\ RebuildOff
  /\ ImageOff
  /\ an_pc = "start"
  /\ an_doc \in AnDocs
  /\ analysis = ErrorAnalysis
  /\ strategy = "none"

\* analysis = PDFAnalyzer.analyze_pdf(file_path)
Analyze ==
  /\ an_pc = "start"
  /\ analysis' = analyze_pdf(an_doc)
  /\ an_pc' = "analyzed"
  /\ UNCHANGED <<an_doc, strategy>>
  /\ UNCHANGED <<searchVars, rebuildVars, imageVars>>

\* strategy = PDFAnalyzer.recommend_strategy(analysis)
Recommend ==
  /\ an_pc = "analyzed"
  /\ strategy' = recommend_strategy(analysis)
  /\ an_pc' = "recommended"
  /\ UNCHANGED <<an_doc, analysis>>
  /\ UNCHANGED <<searchVars, rebuildVars, imageVars>>

NextAnalyzer == Analyze \/ Recommend

SpecAnalyzer == InitAnalyzer /\ [][NextAnalyzer]_vars

\* the document has been analysed without error
Analyzed == an_pc \in {"analyzed", "recommended"} /\ ~analysis.error

\* pixel area of all images of the document, and area of all its pages
RECURSIVE DocImageArea(_)
DocImageArea(pages) ==
  IF pages = <<>> THEN 0
  ELSE ImageSums(Head(pages).images).area + DocImageArea(Tail(pages))

RECURSIVE DocPageArea(_)
DocPageArea(pages) ==
  IF pages = <<>> THEN 0 ELSE Head(pages).area + DocPageArea(Tail(pages))

\* C18 (image heavy): image_heavy is true exactly when the pixel area of all
\* images divided by the area of all pages is greater than 0.30.
C18_ImageHeavy ==
  Analyzed =>
    (analysis.image_heavy
       <=> 10 * DocImageArea(an_doc.pages) > 3 * DocPageArea(an_doc.pages))

\* C19 (text heavy): text_heavy is true exactly when the image area divided
\* by the page area is less than 0.10; a document without images has ratio 0
\* and is text heavy.
C19_TextHeavy ==
  Analyzed =>
    (analysis.text_heavy
       <=> 10 * DocImageArea(an_doc.pages) < 1 * DocPageArea(an_doc.pages))

\* the four labels and the table of the lookup
FourLabels ==
  {"aggressive_image_compression", "moderate_image_compression",
   "dpi_reduction", "balanced"}

LookupTable ==
  /\ (analysis.image_heavy /\ DpiAbove200(analysis))
       => strategy = "aggressive_image_compression"
  /\ (analysis.image_heavy /\ ~DpiAbove200(analysis))
       => strategy = "moderate_image_compression"
  /\ (~analysis.image_heavy /\ analysis.text_heavy)
       => strategy = "dpi_reduction"
  /\ (~analysis.image_heavy /\ ~analysis.text_heavy)
       => strategy = "balanced"

\* C20 as stated (recommend_strategy): for every result of analyze_pdf the
\* recommendation is one of exactly four labels, given by the table over
\* image_heavy, text_heavy and average_dpi > 200.
C20_FourLabelsAlways ==
  an_pc = "recommended" => (strategy \in FourLabels /\ LookupTable)

\* C20 as amended: for every result of analyze_pdf that is not an error
\* result the recommendation is one of the four labels, given by the table
\* over image_heavy, text_heavy and average_dpi > 200; for an error result
\* ({'error': ...}) it is the fifth label "basic".
C20_Lookup ==
  an_pc = "recommended" =>
    IF analysis.error
      THEN strategy = "basic"
      ELSE strategy \in FourLabels /\ LookupTable

C20_Witness ==
  /\ an_pc = "recommended"
  /\ ~analysis.error
  /\ analysis.image_heavy
  /\ analysis.average_dpi.num = 200 * analysis.average_dpi.den
  /\ strategy = "moderate_image_compression"

\* compression_ratio = (1 - final_size / original_size) * 100, as a fraction
compression_ratio(final_size, original) ==
  [num |-> 100 * (original - final_size), den |-> original]

\* C21 (strict reduction): when compress_pdf has returned through the search
\* (strategy 1 or 2), original size > target >= final size, so the output is
\* strictly smaller than the input was and the reported reduction is strictly
\* positive; a returned output as large as the input comes from the trivial
\* copy only.
C21_StrictReduction ==
  /\ ReturnedFromSearch =>
       /\ get_file_size(fs0, input_path) > target_size_bytes
       /\ target_size_bytes >= get_file_size(fs, output_path)
       /\ get_file_size(fs, output_path) < get_file_size(fs0, input_path)
       /\ original_size = get_file_size(fs0, input_path)
       /\ compression_ratio(get_file_size(fs, output_path), original_size).num
            > 0
  /\ (Returned /\ get_file_size(fs, output_path)
                    >= get_file_size(fs0, input_path))
       => ~Truthy(best_result)

C21_Witness ==
  /\ ReturnedFromSearch
  /\ best_result = TempName(output_path)
  /\ output_path = input_path
  /\ get_file_size(fs, output_path) = target_size_bytes
  /\ original_size = target_size_bytes + 1

====
